---------------------------- MODULE Spec2Model ----------------------------
(***************************************************************************)
(* The discount-code resource of the commercetools provider                *)
(* (commercetools/resource_discount_code.go): the four lifecycle handlers  *)
(* create / read / update / delete, the passthrough importer, and the      *)
(* remote discount-code collection they call.                              *)
(*                                                                         *)
(* A handler runs as a sequence of steps, one per remote call: a step      *)
(* takes the answer of the call in flight, runs the handler's code up to   *)
(* its next remote call and leaves that call in `req`.  Between two steps  *)
(* other clients of the remote API may modify or delete the resource.      *)
(*                                                                         *)
(* Pointers and optional values are sequences of length at most one:       *)
(* <<>> is nil, <<v>> points to v.                                         *)
(*                                                                         *)
(* `state` and `id` are what the handlers store through d.Set and          *)
(* d.SetId; `config` is what d.Get returns for a configurable field while  *)
(* create or update runs; d.HasChange(f) compares the two.                 *)
(***************************************************************************)
EXTENDS Integers, Sequences, FiniteSets, TLC

\* ------------------------------------------------------------- bounds

\* Single-field edits of the configuration in one behaviour; an update sees the
\* edits made since the last one.
MaxEdits == 1
\* Creations, modifications and deletions made by other clients of the remote API.
MaxExternal == 1
\* The remote version counter is capped here.
MaxVersion == 3

\* resource.RetryContext(ctx, 1*time.Minute, ...): the budget, in ticks of 20 s.
RetryTimeout == 3

\* ------------------------------------------------------------- values

Fields ==
    {"name", "description", "code", "valid_from", "valid_until", "is_active",
     "predicate", "max_applications_per_customer", "max_applications",
     "groups", "cart_discounts"}

\* A LocalizedString is a set of <<language, text>> pairs.
GoodTime == "2021-01-01T00:00:00Z"
BadTime == "tomorrow"

\* The values a configuration may give each field of the schema.
Domain(f) ==
    CASE f = "name" -> {{}, {<<"en", "Summer">>}}
      [] f = "description" -> {{}, {<<"en", "Sale">>}}
      [] f = "code" -> {"CODE1", "CODE2"}
      [] f = "valid_from" -> {"", GoodTime, BadTime}
      [] f = "valid_until" -> {"", GoodTime, BadTime}
      [] f = "is_active" -> BOOLEAN
      [] f = "predicate" -> {"", "1=1"}
      [] f = "max_applications_per_customer" -> {0, 1}
      [] f = "max_applications" -> {0, 5}
      [] f = "groups" -> {<<>>, <<"g1">>}
      [] f = "cart_discounts" -> {<<"cd1">>, <<"cd2", "cd1">>}

\* The zero value of every stored field: the resource data before any d.Set.
ZeroState ==
    [name |-> {}, description |-> {}, code |-> "", valid_from |-> "",
     valid_until |-> "", is_active |-> FALSE, predicate |-> "",
     max_applications_per_customer |-> 0, max_applications |-> 0,
     groups |-> <<>>, cart_discounts |-> <<>>, version |-> 0]

\* Only the required fields set, is_active at its default.
MinimalConfig ==
    [name |-> {}, description |-> {}, code |-> "CODE1", valid_from |-> "",
     valid_until |-> "", is_active |-> TRUE, predicate |-> "",
     max_applications_per_customer |-> 0, max_applications |-> 0,
     groups |-> <<>>, cart_discounts |-> <<"cd1">>]

FullConfig ==
    [name |-> {<<"en", "Summer">>}, description |-> {<<"en", "Sale">>},
     code |-> "CODE2", valid_from |-> GoodTime, valid_until |-> GoodTime,
     is_active |-> FALSE, predicate |-> "1=1",
     max_applications_per_customer |-> 1, max_applications |-> 5,
     groups |-> <<"g1">>, cart_discounts |-> <<"cd2", "cd1">>]

\* The ID the remote gives the one discount code of the collection.
RemoteID == "dc1"
\* The IDs a user imports.
IDs == {RemoteID}

\* Errors a call may fail with whatever the remote holds: an ErrorResponse of status
\* 500, and "net", an error of another type.
TransientErrors == {"e500", "net"}

\* ------------------------------------------------------------- helpers

\* unmarshallTime: the parsed instant, or no instant and an error.
unmarshallTime(s) ==
    IF s = GoodTime THEN [err |-> FALSE, time |-> <<1>>]
    ELSE [err |-> TRUE, time |-> <<>>]

\* marshallTime: the text of an optional instant, "" for nil.
marshallTime(t) == IF t = <<>> THEN "" ELSE GoodTime

unmarshallLocalizedString(v) == {<<p[1], p[2]>> : p \in v}

stringRef(v) == <<v>>
boolRef(v) == <<v>>
intRef(v) == <<v>>

expandStringArray(l) == [i \in 1..Len(l) |-> l[i]]

unmarshallDiscountCodeGroups(d) == expandStringArray(d.groups)

unmarshallDiscountCodeCartDiscounts(d) ==
    [i \in 1..Len(d.cart_discounts) |-> [ID |-> <<d.cart_discounts[i]>>]]

marshallDiscountCodeCartDiscounts(values) ==
    [i \in 1..Len(values) |-> values[i].ID]

\* The value d.Set stores for a pointer: the zero value for nil.
Deref(p, zero) == IF p = <<>> THEN zero ELSE p[1]

\* d.HasChange(f): the stored value and the configured one differ.
HasChange(old, new, f) == old[f] # new[f]

\* ------------------------------------------------------------- create

\* The time fields of the configuration that create cannot parse.
DraftErr(d) ==
    \/ d.valid_from # "" /\ unmarshallTime(d.valid_from).err
    \/ d.valid_until # "" /\ unmarshallTime(d.valid_until).err

\* platform.DiscountCodeDraft as create fills it from the configuration.
DiscountCodeDraft(d) ==
    [Name |-> <<unmarshallLocalizedString(d.name)>>,
     Description |-> <<unmarshallLocalizedString(d.description)>>,
     Code |-> d.code,
     CartPredicate |-> stringRef(d.predicate),
     IsActive |-> boolRef(d.is_active),
     MaxApplicationsPerCustomer |-> intRef(d.max_applications_per_customer),
     MaxApplications |-> intRef(d.max_applications),
     Groups |-> unmarshallDiscountCodeGroups(d),
     CartDiscounts |-> unmarshallDiscountCodeCartDiscounts(d),
     ValidFrom |-> IF d.valid_from # "" THEN unmarshallTime(d.valid_from).time ELSE <<>>,
     ValidUntil |-> IF d.valid_until # "" THEN unmarshallTime(d.valid_until).time ELSE <<>>]

\* ------------------------------------------------------------- read

\* read without its d.Set of groups.
ReadFieldsNoGroups(old, dc) ==
    [version |-> dc.Version,
     code |-> dc.Code,
     name |-> Deref(dc.Name, {}),
     description |-> Deref(dc.Description, {}),
     predicate |-> Deref(dc.CartPredicate, ""),
     cart_discounts |-> marshallDiscountCodeCartDiscounts(dc.CartDiscounts),
     groups |-> old.groups,
     is_active |-> dc.IsActive,
     valid_from |-> marshallTime(dc.ValidFrom),
     valid_until |-> marshallTime(dc.ValidUntil),
     max_applications_per_customer |-> Deref(dc.MaxApplicationsPerCustomer, 0),
     max_applications |-> Deref(dc.MaxApplications, 0)]

\* The d.Set calls of read on a discount code the remote returned.
ReadFields(old, dc) ==
    [version |-> dc.Version,
     code |-> dc.Code,
     name |-> Deref(dc.Name, {}),
     description |-> Deref(dc.Description, {}),
     predicate |-> Deref(dc.CartPredicate, ""),
     cart_discounts |-> marshallDiscountCodeCartDiscounts(dc.CartDiscounts),
     groups |-> dc.Groups,
     is_active |-> dc.IsActive,
     valid_from |-> marshallTime(dc.ValidFrom),
     valid_until |-> marshallTime(dc.ValidUntil),
     max_applications_per_customer |-> Deref(dc.MaxApplicationsPerCustomer, 0),
     max_applications |-> Deref(dc.MaxApplications, 0)]

\* ------------------------------------------------------------- update

\* One `if d.HasChange(f) { append(action) }` block with a plain value.
ActionIf(old, new, f, action, value) ==
    IF HasChange(old, new, f) THEN <<[action |-> action, value |-> value]>> ELSE <<>>

\* The block of valid_from and of valid_until: an empty text gives the action no value.
TimeActionIf(old, new, f, action) ==
    IF HasChange(old, new, f)
    THEN <<[action |-> action,
            value |-> IF new[f] # "" THEN unmarshallTime(new[f]).time ELSE <<>>]>>
    ELSE <<>>

\* update ignoring the parse error of valid_until.
UpdateErrFromOnly(old, new) ==
    HasChange(old, new, "valid_from") /\ new.valid_from # ""
        /\ unmarshallTime(new.valid_from).err

\* The changed time fields that update cannot parse: it returns before posting.
UpdateErr(old, new) ==
    \/ HasChange(old, new, "valid_from") /\ new.valid_from # ""
         /\ unmarshallTime(new.valid_from).err
    \/ HasChange(old, new, "valid_until") /\ new.valid_until # ""
         /\ unmarshallTime(new.valid_until).err

\* The blocks of is_active and of groups in the other order.
UpdateActionsSwapped(old, new) ==
    ActionIf(old, new, "name", "setName", <<unmarshallLocalizedString(new.name)>>)
    \o ActionIf(old, new, "description", "setDescription",
                <<unmarshallLocalizedString(new.description)>>)
    \o ActionIf(old, new, "predicate", "setCartPredicate", <<new.predicate>>)
    \o ActionIf(old, new, "max_applications", "setMaxApplications",
                <<new.max_applications>>)
    \o ActionIf(old, new, "max_applications_per_customer",
                "setMaxApplicationsPerCustomer", <<new.max_applications_per_customer>>)
    \o ActionIf(old, new, "cart_discounts", "changeCartDiscounts",
                unmarshallDiscountCodeCartDiscounts(new))
    \o ActionIf(old, new, "is_active", "changeIsActive", new.is_active)
    \o ActionIf(old, new, "groups", "changeGroups",
                IF Len(unmarshallDiscountCodeGroups(new)) > 0
                THEN unmarshallDiscountCodeGroups(new) ELSE <<>>)
    \o TimeActionIf(old, new, "valid_from", "setValidFrom")
    \o TimeActionIf(old, new, "valid_until", "setValidUntil")

\* input.Actions as update appends to it, block after block.
UpdateActions(old, new) ==
    ActionIf(old, new, "name", "setName", <<unmarshallLocalizedString(new.name)>>)
    \o ActionIf(old, new, "description", "setDescription",
                <<unmarshallLocalizedString(new.description)>>)
    \o ActionIf(old, new, "predicate", "setCartPredicate", <<new.predicate>>)
    \o ActionIf(old, new, "max_applications", "setMaxApplications",
                <<new.max_applications>>)
    \o ActionIf(old, new, "max_applications_per_customer",
                "setMaxApplicationsPerCustomer", <<new.max_applications_per_customer>>)
    \o ActionIf(old, new, "cart_discounts", "changeCartDiscounts",
                unmarshallDiscountCodeCartDiscounts(new))
    \o ActionIf(old, new, "groups", "changeGroups",
                IF Len(unmarshallDiscountCodeGroups(new)) > 0
                THEN unmarshallDiscountCodeGroups(new) ELSE <<>>)
    \o ActionIf(old, new, "is_active", "changeIsActive", new.is_active)
    \o TimeActionIf(old, new, "valid_from", "setValidFrom")
    \o TimeActionIf(old, new, "valid_until", "setValidUntil")

\* update sending the stored version, as delete does.
UpdateVersionStored(fetched, stored) == stored.version

\* The version update puts in its request: the one of the discount code it fetched.
UpdateVersion(fetched, stored) == fetched.Version

\* The version delete puts in its request: the stored one.
DeleteVersion(stored) == stored.version

\* ------------------------------------------------------------- remote

\* The discount code the remote makes of a draft.
RemoteCreate(draft) ==
    [ID |-> RemoteID, Version |-> 1, Code |-> draft.Code,
     Name |-> draft.Name, Description |-> draft.Description,
     CartPredicate |-> draft.CartPredicate,
     CartDiscounts |-> [i \in 1..Len(draft.CartDiscounts) |->
                          [typeId |-> "cart-discount", ID |-> draft.CartDiscounts[i].ID[1]]],
     Groups |-> draft.Groups,
     IsActive |-> Deref(draft.IsActive, TRUE),
     ValidFrom |-> draft.ValidFrom, ValidUntil |-> draft.ValidUntil,
     MaxApplicationsPerCustomer |-> draft.MaxApplicationsPerCustomer,
     MaxApplications |-> draft.MaxApplications]

\* The remote's effect of one update action on a discount code.
RemoteApply(dc, a) ==
    CASE a.action = "setName" -> [dc EXCEPT !.Name = a.value]
      [] a.action = "setDescription" -> [dc EXCEPT !.Description = a.value]
      [] a.action = "setCartPredicate" -> [dc EXCEPT !.CartPredicate = a.value]
      [] a.action = "setMaxApplications" -> [dc EXCEPT !.MaxApplications = a.value]
      [] a.action = "setMaxApplicationsPerCustomer" ->
             [dc EXCEPT !.MaxApplicationsPerCustomer = a.value]
      [] a.action = "changeCartDiscounts" ->
             [dc EXCEPT !.CartDiscounts =
                 [i \in 1..Len(a.value) |->
                     [typeId |-> "cart-discount", ID |-> a.value[i].ID[1]]]]
      [] a.action = "changeGroups" -> [dc EXCEPT !.Groups = a.value]
      [] a.action = "changeIsActive" -> [dc EXCEPT !.IsActive = a.value]
      [] a.action = "setValidFrom" -> [dc EXCEPT !.ValidFrom = a.value]
      [] a.action = "setValidUntil" -> [dc EXCEPT !.ValidUntil = a.value]

RECURSIVE RemoteApplyAll(_, _)
RemoteApplyAll(dc, actions) ==
    IF actions = <<>> THEN dc
    ELSE RemoteApplyAll(RemoteApply(dc, Head(actions)), Tail(actions))

\* The discount code after an accepted update: every action applied, a new version
\* when there was one.
RemoteUpdate(dc, actions) ==
    [RemoteApplyAll(dc, actions) EXCEPT
        !.Version = IF actions = <<>> THEN dc.Version ELSE dc.Version + 1]

\* ------------------------------------------------------------- state

VARIABLES
    config,     \* the configured value of every field (d.Get in create and update)
    state,      \* the stored value of every field and of version (d.Set)
    id,         \* the stored ID (d.Id, d.SetId), "" when unset
    origin,     \* how the stored ID was set: "create", "import", "none" when unset
    tainted,    \* create returned an error after it had set the ID
    remote,     \* the remote collection: <<>> or <<the discount code>>
    pc,         \* "idle", or the call site whose remote call is in flight
    op,         \* the handler that is running, "none" when idle
    req,        \* the remote call in flight: <<>> or <<the request>>
    result,     \* what the last handler returned
    sent,       \* remote calls issued per call site by the running (or last) handler
    elapsed,    \* ticks create's retry has used up
    lastClass,  \* how the error of create's last failed attempt was classified
    touched,    \* another client changed the remote while update's post was in flight
    plans,      \* single-field edits of the configuration so far
    externals   \* creations, modifications and deletions by other clients so far

vars ==
    <<config, state, id, origin, tainted, remote, pc, op, req, result, sent, elapsed, lastClass,
      touched, plans, externals>>

Sites == {"create.post", "read.get", "update.get", "update.post", "delete.delete"}

NoneSent == [s \in Sites |-> 0]

Request(site, rid, version, draft, actions) ==
    [site |-> site, id |-> rid, version |-> version, draft |-> draft,
     actions |-> actions]

NoResult == [op |-> "none", diag |-> "none", callErr |-> "none", site |-> "none"]

Running(handler) ==
    [op |-> handler, diag |-> "running", callErr |-> "none", site |-> "none"]

\* The handler returns: diag is its diagnostics ("none": no diagnostics), callErr
\* the error of the remote call that failed in it ("none": no call failed), site
\* the call site of that call.
Return(handler, diag, callErr) ==
    /\ pc' = "idle"
    /\ op' = "none"
    /\ req' = <<>>
    /\ result' = [op |-> handler, diag |-> diag, callErr |-> callErr,
                  site |-> IF callErr = "none" THEN "none" ELSE pc]
    /\ elapsed' = 0
    /\ lastClass' = "none"
    /\ touched' = FALSE

\* The handler issues the remote call of `site`; `counts` are the calls it has
\* issued before.
Call(site, request, counts) ==
    /\ pc' = site
    /\ req' = <<request>>
    /\ sent' = [counts EXCEPT ![site] = @ + 1]

\* The discount code another client of the API creates.
ForeignCode == RemoteCreate(DiscountCodeDraft(FullConfig))

Init ==
    /\ config \in {MinimalConfig, FullConfig}
    /\ state = ZeroState
    /\ id = ""
    /\ origin = "none"
    /\ tainted = FALSE
    /\ remote = <<>>
    /\ pc = "idle"
    /\ op = "none"
    /\ req = <<>>
    /\ result = NoResult
    /\ sent = NoneSent
    /\ elapsed = 0
    /\ lastClass = "none"
    /\ touched = FALSE
    /\ plans = 0
    /\ externals = 0

\* ------------------------------------------------------------- remote answers

Answer(err, dc, after) == [err |-> err, dc |-> dc, remote |-> after]

Found(r, rid) == r # <<>> /\ r[1].ID = rid

\* What Execute may return for request q when the remote holds r: an error, a
\* result, or neither (err "none" and dc <<>>); `remote` is what the remote holds
\* afterwards.  A call may fail before it reaches the remote.
RemoteAnswers(r, q) ==
    {Answer(e, <<>>, r) : e \in TransientErrors}
    \cup
    CASE q.site \in {"read.get", "update.get"} ->
             IF Found(r, q.id)
             THEN {Answer("none", r, r), Answer("none", <<>>, r)}
             ELSE {Answer("e404", <<>>, r)}
      [] q.site = "create.post" ->
             IF r = <<>>
             THEN {Answer("none", <<RemoteCreate(q.draft[1])>>, <<RemoteCreate(q.draft[1])>>),
                   Answer("none", <<>>, r)}
             ELSE {Answer("e400", <<>>, r)}
      [] q.site = "update.post" ->
             IF ~Found(r, q.id) THEN {Answer("e404", <<>>, r)}
             ELSE IF r[1].Version # q.version THEN {Answer("e409", <<>>, r)}
             ELSE IF q.actions # <<>> /\ r[1].Version >= MaxVersion THEN {}
             ELSE {Answer("none", <<RemoteUpdate(r[1], q.actions)>>,
                          <<RemoteUpdate(r[1], q.actions)>>)}
      [] q.site = "delete.delete" ->
             IF ~Found(r, q.id) THEN {Answer("e404", <<>>, r)}
             ELSE IF r[1].Version # q.version THEN {Answer("e409", <<>>, r)}
             ELSE {Answer("none", r, <<>>)}

\* handleCommercetoolsError: the retry class it gives an error of the create call.
handleCommercetoolsError(err) == {"retryable", "fatal"}

\* A retry that calls again after any error.
RetryAgainAnyError(class, used) == used < RetryTimeout

\* resource.RetryContext after a failed attempt: whether it calls the function again.
RetryAgain(class, used) == class = "retryable" /\ used < RetryTimeout

Min(a, b) == IF a < b THEN a ELSE b

\* ------------------------------------------------------------- diagnostics

\* create: diag.FromErr of the error the retry ended with.
CreateDiag(err) == err

\* read: an ErrorResponse of status 404 is no error, any other error is returned.
ReadDiag(err) == IF err = "e404" THEN "none" ELSE err

\* read without its check for status 404.
ReadIDNo404(err, dc, stored) ==
    IF err = "none" /\ dc = <<>> THEN "" ELSE stored

\* read: the ID after the get answered: cleared on a 404 and when nothing came back.
ReadID(err, dc, stored) ==
    IF err = "e404" \/ (err = "none" /\ dc = <<>>) THEN "" ELSE stored

\* update logging the error and returning nil, as delete does.
UpdateDiagSwallowed(err) == "none"

\* update: diag.FromErr of the error of its get or of its post.
UpdateDiag(err) == err

\* delete returning diag.FromErr of the error, as the other handlers do.
DeleteDiagForwarded(err) == err

\* delete: the error is logged, nil is returned.
DeleteDiag(err) == "none"

\* ------------------------------------------------------------- create

\* A new resource starts from empty resource data.
CreateParseError ==
    /\ pc = "idle" /\ id = "" /\ state = ZeroState
    /\ DraftErr(config)
    /\ Return("create", "parse", "none")
    /\ sent' = NoneSent
    /\ UNCHANGED <<config, state, id, origin, tainted, remote, plans, externals>>

CreateStart ==
    /\ pc = "idle" /\ id = "" /\ state = ZeroState
    /\ ~DraftErr(config)
    /\ op' = "create"
    /\ Call("create.post",
            Request("create.post", "", 0, <<DiscountCodeDraft(config)>>, <<>>), NoneSent)
    /\ result' = Running("create")
    /\ UNCHANGED <<config, state, id, origin, tainted, remote, elapsed, lastClass, touched, plans,
                   externals>>

\* The post failed: the retry calls again, or create returns the error.
CreatePostFailed ==
    /\ pc = "create.post"
    /\ \E ans \in RemoteAnswers(remote, req[1]), d \in 1..2 :
        /\ ans.err # "none"
        /\ \E class \in handleCommercetoolsError(ans.err) :
           IF RetryAgain(class, Min(elapsed + d, RetryTimeout))
           THEN /\ Call("create.post", req[1], sent)
                /\ elapsed' = Min(elapsed + d, RetryTimeout)
                /\ lastClass' = class
                /\ UNCHANGED <<op, result, touched>>
           ELSE Return("create", CreateDiag(ans.err), ans.err) /\ UNCHANGED sent
    /\ UNCHANGED <<config, state, id, origin, tainted, remote, plans, externals>>

\* The post returned neither a discount code nor an error.
CreatePostNothing ==
    /\ pc = "create.post"
    /\ \E ans \in RemoteAnswers(remote, req[1]) :
        /\ ans.err = "none" /\ ans.dc = <<>>
        /\ Return("create", "nocreate", "none")
    /\ UNCHANGED <<config, state, id, origin, tainted, remote, sent, plans, externals>>

\* The post created the discount code: create stores ID and version and reads.
CreatePosted ==
    /\ pc = "create.post"
    /\ \E ans \in RemoteAnswers(remote, req[1]) :
        /\ ans.err = "none" /\ ans.dc # <<>>
        /\ remote' = ans.remote
        /\ id' = ans.dc[1].ID
        /\ state' = [state EXCEPT !.version = ans.dc[1].Version]
        /\ Call("read.get", Request("read.get", ans.dc[1].ID, 0, <<>>, <<>>), sent)
    /\ origin' = "create"
    /\ UNCHANGED <<config, tainted, op, result, elapsed, lastClass, touched, plans, externals>>

\* ------------------------------------------------------------- read

ReadStart ==
    /\ pc = "idle" /\ id # ""
    /\ op' = "read"
    /\ Call("read.get", Request("read.get", id, 0, <<>>, <<>>), NoneSent)
    /\ result' = Running("read")
    /\ UNCHANGED <<config, state, id, origin, tainted, remote, elapsed, lastClass, touched, plans,
                   externals>>

\* schema.ImportStatePassthroughContext: the ID is the one the user gives, and the
\* host reads the resource into empty resource data.
ImportStart ==
    /\ pc = "idle" /\ id = "" /\ state = ZeroState
    /\ \E i \in IDs :
        /\ id' = i
        /\ Call("read.get", Request("read.get", i, 0, <<>>, <<>>), NoneSent)
    /\ origin' = "import"
    /\ op' = "import"
    /\ result' = Running("import")
    /\ UNCHANGED <<config, state, tainted, remote, elapsed, lastClass, touched, plans, externals>>

\* What the host keeps of the ID when the read that `handler` ran returned `diag`:
\* a failed import leaves no resource behind.
HostID(handler, diag, stored) ==
    IF handler = "import" /\ diag # "none" THEN "" ELSE stored

\* A resource whose create returned an error after it had set the ID is tainted:
\* the host replaces it and never updates it.
HostTainted(handler, diag, stored) ==
    handler = "create" /\ diag # "none" /\ stored # ""

\* The get failed: a 404 clears the ID and is no error, another error is returned.
ReadFailed ==
    /\ pc = "read.get"
    /\ \E ans \in RemoteAnswers(remote, req[1]) :
        /\ ans.err # "none"
        /\ LET newID == HostID(op, ReadDiag(ans.err), ReadID(ans.err, ans.dc, id))
           IN /\ id' = newID
              /\ origin' = IF newID = "" THEN "none" ELSE origin
              /\ tainted' = IF newID = "" THEN FALSE
                            ELSE tainted \/ HostTainted(op, ReadDiag(ans.err), newID)
        /\ Return(op, ReadDiag(ans.err), ans.err)
    /\ UNCHANGED <<config, state, remote, sent, plans, externals>>

\* The get returned neither a discount code nor an error: the ID is cleared.
ReadNothing ==
    /\ pc = "read.get"
    /\ \E ans \in RemoteAnswers(remote, req[1]) :
        /\ ans.err = "none" /\ ans.dc = <<>>
        /\ id' = ReadID(ans.err, ans.dc, id)
        /\ origin' = IF ReadID(ans.err, ans.dc, id) = "" THEN "none" ELSE origin
        /\ tainted' = IF ReadID(ans.err, ans.dc, id) = "" THEN FALSE ELSE tainted
        /\ Return(op, "none", "none")
    /\ UNCHANGED <<config, state, remote, sent, plans, externals>>

\* The get returned the discount code: every field is stored.
ReadFound ==
    /\ pc = "read.get"
    /\ \E ans \in RemoteAnswers(remote, req[1]) :
        /\ ans.err = "none" /\ ans.dc # <<>>
        /\ state' = ReadFields(state, ans.dc[1])
        /\ Return(op, "none", "none")
    /\ UNCHANGED <<config, id, origin, tainted, remote, sent, plans, externals>>

\* ------------------------------------------------------------- update

\* The host updates a resource it holds untainted.
UpdateStart ==
    /\ pc = "idle" /\ id # "" /\ ~tainted
    /\ op' = "update"
    /\ Call("update.get", Request("update.get", id, 0, <<>>, <<>>), NoneSent)
    /\ result' = Running("update")
    /\ UNCHANGED <<config, state, id, origin, tainted, remote, elapsed, lastClass, touched, plans,
                   externals>>

UpdateGetFailed ==
    /\ pc = "update.get"
    /\ \E ans \in RemoteAnswers(remote, req[1]) :
        /\ ans.err # "none"
        /\ Return("update", UpdateDiag(ans.err), ans.err)
    /\ UNCHANGED <<config, state, id, origin, tainted, remote, sent, plans, externals>>

\* The get returned neither a discount code nor an error: discountCode.Version
\* dereferences nil and the handler panics.
UpdateGetNothing ==
    /\ pc = "update.get"
    /\ \E ans \in RemoteAnswers(remote, req[1]) :
        /\ ans.err = "none" /\ ans.dc = <<>>
        /\ Return("update", "panic", "none")
    /\ UNCHANGED <<config, state, id, origin, tainted, remote, sent, plans, externals>>

\* A changed valid_from or valid_until does not parse: update returns the error.
UpdateParseError ==
    /\ pc = "update.get"
    /\ \E ans \in RemoteAnswers(remote, req[1]) :
        /\ ans.err = "none" /\ ans.dc # <<>>
        /\ UpdateErr(state, config)
        /\ Return("update", "parse", "none")
    /\ UNCHANGED <<config, state, id, origin, tainted, remote, sent, plans, externals>>

\* The actions are built and posted with the fetched ID and version.
UpdatePost ==
    /\ pc = "update.get"
    /\ \E ans \in RemoteAnswers(remote, req[1]) :
        /\ ans.err = "none" /\ ans.dc # <<>>
        /\ ~UpdateErr(state, config)
        /\ Call("update.post",
                Request("update.post", ans.dc[1].ID, UpdateVersion(ans.dc[1], state),
                        <<>>, UpdateActions(state, config)), sent)
    /\ touched' = FALSE
    /\ UNCHANGED <<config, state, id, origin, tainted, remote, op, result, elapsed, lastClass,
                   plans, externals>>

UpdatePostFailed ==
    /\ pc = "update.post"
    /\ \E ans \in RemoteAnswers(remote, req[1]) :
        /\ ans.err # "none"
        /\ Return("update", UpdateDiag(ans.err), ans.err)
    /\ UNCHANGED <<config, state, id, origin, tainted, remote, sent, plans, externals>>

\* The post was accepted: update reads.
UpdatePosted ==
    /\ pc = "update.post"
    /\ \E ans \in RemoteAnswers(remote, req[1]) :
        /\ ans.err = "none"
        /\ remote' = ans.remote
    /\ Call("read.get", Request("read.get", id, 0, <<>>, <<>>), sent)
    /\ touched' = FALSE
    /\ UNCHANGED <<config, state, id, origin, tainted, op, result, elapsed, lastClass, plans,
                   externals>>

\* ------------------------------------------------------------- delete

DeleteStart ==
    /\ pc = "idle" /\ id # ""
    /\ op' = "delete"
    /\ Call("delete.delete",
            Request("delete.delete", id, DeleteVersion(state), <<>>, <<>>), NoneSent)
    /\ result' = Running("delete")
    /\ UNCHANGED <<config, state, id, origin, tainted, remote, elapsed, lastClass, touched, plans,
                   externals>>

\* Whatever the call answers, delete returns its diagnostics; when there are none
\* the host drops the resource: its ID and its stored fields.
DeleteDone ==
    /\ pc = "delete.delete"
    /\ \E ans \in RemoteAnswers(remote, req[1]) :
        /\ remote' = ans.remote
        /\ Return("delete", DeleteDiag(ans.err), ans.err)
        /\ IF DeleteDiag(ans.err) = "none"
           THEN id' = "" /\ origin' = "none" /\ tainted' = FALSE /\ state' = ZeroState
           ELSE UNCHANGED <<id, origin, tainted, state>>
    /\ UNCHANGED <<config, sent, plans, externals>>

\* ------------------------------------------------------------- host and environment

\* The host drops the stored fields of a resource whose ID a handler cleared.
HostDrop ==
    /\ pc = "idle" /\ id = "" /\ state # ZeroState
    /\ state' = ZeroState
    /\ UNCHANGED <<config, id, origin, tainted, remote, pc, op, req, result, sent, elapsed,
                   lastClass, touched, plans, externals>>

\* The user edits one field of the configuration before the next run.
Plan ==
    /\ pc = "idle"
    /\ plans < MaxEdits
    /\ \E f \in Fields : \E v \in Domain(f) \ {config[f]} :
          config' = [config EXCEPT ![f] = v]
    /\ plans' = plans + 1
    /\ result' = NoResult
    /\ sent' = NoneSent
    /\ UNCHANGED <<state, id, origin, tainted, remote, pc, op, req, elapsed, lastClass, touched,
                   externals>>

\* The update another client of the API sends for the discount code.
ForeignActions == <<[action |-> "setMaxApplications", value |-> <<9>>]>>

\* Another client creates the discount code.
RemoteCreated ==
    /\ remote = <<>>
    /\ externals < MaxExternal
    /\ remote' = <<ForeignCode>>
    /\ externals' = externals + 1
    /\ touched' = (pc = "update.post")
    /\ UNCHANGED <<config, state, id, origin, tainted, pc, op, req, result, sent, elapsed,
                   lastClass, plans>>

\* Another client updates the discount code.
RemoteModify ==
    /\ remote # <<>>
    /\ externals < MaxExternal
    /\ remote[1].Version < MaxVersion
    /\ remote' = <<RemoteUpdate(remote[1], ForeignActions)>>
    /\ externals' = externals + 1
    /\ touched' = (pc = "update.post")
    /\ UNCHANGED <<config, state, id, origin, tainted, pc, op, req, result, sent, elapsed,
                   lastClass, plans>>

\* Another client deletes the discount code.
RemoteDelete ==
    /\ remote # <<>>
    /\ externals < MaxExternal
    /\ remote' = <<>>
    /\ externals' = externals + 1
    /\ touched' = (pc = "update.post")
    /\ UNCHANGED <<config, state, id, origin, tainted, pc, op, req, result, sent, elapsed,
                   lastClass, plans>>

\* A step of a handler: the call in flight is answered.
Answered ==
    \/ CreatePostFailed \/ CreatePostNothing \/ CreatePosted
    \/ ReadFailed \/ ReadNothing \/ ReadFound
    \/ UpdateGetFailed \/ UpdateGetNothing \/ UpdateParseError \/ UpdatePost
    \/ UpdatePostFailed \/ UpdatePosted
    \/ DeleteDone

Next ==
    \/ CreateParseError \/ CreateStart \/ CreatePostFailed \/ CreatePostNothing
    \/ CreatePosted
    \/ ReadStart \/ ImportStart \/ ReadFailed \/ ReadNothing \/ ReadFound
    \/ UpdateStart \/ UpdateGetFailed \/ UpdateGetNothing \/ UpdateParseError
    \/ UpdatePost \/ UpdatePostFailed \/ UpdatePosted
    \/ DeleteStart \/ DeleteDone
    \/ HostDrop \/ Plan \/ RemoteCreated \/ RemoteModify \/ RemoteDelete

Spec == Init /\ [][Next]_vars

\* Every remote call is answered: the handlers are synchronous and the client
\* returns from Execute.
LiveSpec == Spec /\ WF_vars(Answered)

\* ------------------------------------------------------------- properties

\* The field of the schema an update action of the remote API sets.
FieldOfAction(a) ==
    CASE a = "setName" -> "name"
      [] a = "setDescription" -> "description"
      [] a = "setCartPredicate" -> "predicate"
      [] a = "setMaxApplications" -> "max_applications"
      [] a = "setMaxApplicationsPerCustomer" -> "max_applications_per_customer"
      [] a = "changeCartDiscounts" -> "cart_discounts"
      [] a = "changeGroups" -> "groups"
      [] a = "changeIsActive" -> "is_active"
      [] a = "setValidFrom" -> "valid_from"
      [] a = "setValidUntil" -> "valid_until"

\* The place of a field in the order name, description, predicate, max_applications,
\* max_applications_per_customer, cart_discounts, groups, is_active, valid_from,
\* valid_until.
Rank(f) ==
    CASE f = "name" -> 1
      [] f = "description" -> 2
      [] f = "predicate" -> 3
      [] f = "max_applications" -> 4
      [] f = "max_applications_per_customer" -> 5
      [] f = "cart_discounts" -> 6
      [] f = "groups" -> 7
      [] f = "is_active" -> 8
      [] f = "valid_from" -> 9
      [] f = "valid_until" -> 10

\* The update request is in flight; state and config are what update compared.
Posting == pc = "update.post"

PostedActions == req[1].actions

PostedFields == {FieldOfAction(PostedActions[i].action) : i \in 1..Len(PostedActions)}

ChangedFields == {f \in Fields : HasChange(state, config, f)}

\* C1: the update request that is posted holds an update action for every
\* configurable field of the schema whose configured value differs from the stored
\* one, the code field included.
C1_EveryChangedFieldHasAction ==
    Posting => \A f \in Fields : f \in ChangedFields => f \in PostedFields

\* C2: the posted action list holds no action for an unchanged field, at most one
\* action per changed field, the actions in the order name, description, predicate,
\* max_applications, max_applications_per_customer, cart_discounts, groups, is_active,
\* valid_from, valid_until, and nothing when no field changed.
C2_MinimalOrderedActions ==
    Posting =>
        /\ PostedFields \subseteq ChangedFields
        /\ \A i, j \in 1..Len(PostedActions) :
              i < j => Rank(FieldOfAction(PostedActions[i].action))
                         < Rank(FieldOfAction(PostedActions[j].action))
        /\ ChangedFields = {} => PostedActions = <<>>

\* An update whose ten updatable fields all changed is posted.
C2_Witness == Posting /\ Len(PostedActions) = 10

\* A handler that reads has returned: read itself, import, or create and update,
\* which end with a read.
Returned(handlers) == pc = "idle" /\ result.op \in handlers

\* C3 as stated: whenever a remote call of create, read or update fails, the handler
\* returns that error as its diagnostics.
C3_ErrorsForwarded ==
    (Returned({"create", "read", "update", "import"}) /\ result.callErr # "none")
        => result.diag = result.callErr

\* C3 as amended: whenever a remote call of create, read or update fails, the handler
\* returns that error as its diagnostics, except that a read whose get fails with an
\* error response of status 404 returns no diagnostics and clears the ID, also when
\* it is the read that ends a create or an update.
C3_ErrorsForwardedBut404 ==
    (Returned({"create", "read", "update", "import"}) /\ result.callErr # "none")
        => IF result.site = "read.get" /\ result.callErr = "e404"
           THEN result.diag = "none" /\ id = ""
           ELSE result.diag = result.callErr

\* update returned the 409 of its post.
C3_Witness ==
    /\ Returned({"update"})
    /\ result.site = "update.post" /\ result.callErr = "e409" /\ result.diag = "e409"

\* C4: delete returns no diagnostics whatever its remote call answered, and the host
\* then holds no resource, also when the discount code is still there remotely.
C4_DeleteSwallowsErrors ==
    Returned({"delete"}) => result.diag = "none" /\ id = ""

\* The remote rejected a delete with a stale version and the discount code is
\* still there, while the host holds no resource.
C4_Witness ==
    /\ Returned({"delete"})
    /\ result.callErr = "e409" /\ remote # <<>> /\ id = ""

\* C5: create posts again only after a failed attempt whose error was classified
\* retryable and while the budget is not used up, and it always ends its posting
\* with a created discount code or an error; read, update and delete issue each of
\* their remote calls at most once per invocation.
C5_BoundedRetry ==
    /\ [](\A s \in Sites \ {"create.post"} : sent[s] <= 1)
    /\ [](elapsed <= RetryTimeout)
    /\ [][(pc = "create.post" /\ sent'["create.post"] = sent["create.post"] + 1)
            => (lastClass' = "retryable" /\ elapsed' < RetryTimeout /\ remote' = remote)]_vars
    /\ [][(pc = "create.post" /\ pc' # "create.post")
            => \/ pc' = "read.get" /\ id' # "" /\ remote' # <<>>
               \/ pc' = "idle" /\ result'.diag \notin {"none", "running"}]_vars
    /\ (pc = "create.post") ~> (pc # "create.post")

\* create is posting for the third time.
C5_Witness == pc = "create.post" /\ sent["create.post"] = 3

\* The stored fields are those of discount code dc, as the remote returned it.
StoredEquals(st, dc) ==
    /\ st.version = dc.Version
    /\ st.code = dc.Code
    /\ st.name = (IF dc.Name = <<>> THEN {} ELSE dc.Name[1])
    /\ st.description = (IF dc.Description = <<>> THEN {} ELSE dc.Description[1])
    /\ st.predicate = (IF dc.CartPredicate = <<>> THEN "" ELSE dc.CartPredicate[1])
    /\ Len(st.cart_discounts) = Len(dc.CartDiscounts)
    /\ \A i \in 1..Len(dc.CartDiscounts) : st.cart_discounts[i] = dc.CartDiscounts[i].ID
    /\ st.groups = dc.Groups
    /\ st.is_active = dc.IsActive
    /\ st.valid_from = (IF dc.ValidFrom = <<>> THEN "" ELSE GoodTime)
    /\ st.valid_until = (IF dc.ValidUntil = <<>> THEN "" ELSE GoodTime)
    /\ st.max_applications_per_customer =
           (IF dc.MaxApplicationsPerCustomer = <<>> THEN 0 ELSE dc.MaxApplicationsPerCustomer[1])
    /\ st.max_applications =
           (IF dc.MaxApplications = <<>> THEN 0 ELSE dc.MaxApplications[1])

\* C6: when a read finds the discount code (alone, or at the end of an import, a
\* create or an update), every stored field equals the value the remote returned,
\* whatever was stored before.
C6_ReadStoresRemote ==
    [][(pc = "read.get" /\ pc' = "idle" /\ id' # "" /\ result'.diag = "none")
         => (remote # <<>> /\ StoredEquals(state', remote[1]))]_vars

\* A read stored the max_applications another client had set, which no
\* configuration gives.
C6_Witness ==
    /\ Returned({"read"}) /\ result.diag = "none" /\ id # ""
    /\ state.max_applications = 9 /\ config.max_applications # 9

\* C7: with no other client at the remote, after a create or an update that returned
\* no diagnostics and holds the resource, every stored field equals its configured
\* value, the code field included.
C7_RoundTrip ==
    (Returned({"create", "update"}) /\ result.diag = "none" /\ id # "" /\ externals = 0)
        => \A f \in Fields : state[f] = config[f]

\* A read that clears the ID returns no diagnostics and leaves the stored fields as
\* they were; a get answered 404 clears the ID; and a read that returns no
\* diagnostics has either cleared the ID or stored what the remote holds.
ReadClearsOnlyID ==
    /\ (pc = "read.get" /\ pc' = "idle" /\ result'.callErr = "e404") => id' = ""
    /\ (pc = "read.get" /\ pc' = "idle" /\ result'.diag = "none")
           => \/ id' = "" /\ state' = state
              \/ id' = id /\ id # "" /\ remote # <<>> /\ StoredEquals(state', remote[1])
    /\ (pc = "read.get" /\ pc' = "idle" /\ id # "" /\ id' = "" /\ op # "import")
           => (result'.diag = "none" /\ state' = state)

\* An update whose first get is answered 404 returns the error and keeps the ID.
UpdateKeepsID ==
    (pc = "update.get" /\ pc' = "idle" /\ result'.callErr = "e404")
        => (result'.diag = "e404" /\ id' = id /\ id' # "")

\* C8 as stated: a read whose get answers 404 clears the ID, returns no error and
\* leaves the other stored fields; an update whose first get answers 404 returns an
\* error and keeps the ID; and the ID is non-empty after a handler returned only if
\* a create set it and no later read found the discount code missing.
C8_Lifecycle ==
    /\ [][ReadClearsOnlyID /\ UpdateKeepsID]_vars
    /\ []((pc = "idle" /\ id # "") => origin = "create")

\* C8 as amended: the same, with the ID non-empty after a handler returned only if a
\* create or an import set it and no later read found the discount code missing.
C8_LifecycleWithImport ==
    /\ [][ReadClearsOnlyID /\ UpdateKeepsID]_vars
    /\ []((pc = "idle" /\ id # "") => origin \in {"create", "import"})
    /\ []((pc = "idle" /\ id = "") => origin = "none")

\* A read found the discount code missing: the ID is cleared without diagnostics
\* and the fields stored before are still there.
C8_Witness ==
    /\ Returned({"read"}) /\ result.callErr = "e404" /\ result.diag = "none"
    /\ id = "" /\ state.code # ""

\* C9: the version in update's request is the one it has just fetched, so the
\* remote rejects the post only when another client changed the discount code after
\* the get; the version in delete's request is the stored one, and a delete with a
\* stale version fails and leaves the discount code at the remote.
C9_Versions ==
    /\ []((pc = "update.post" /\ ~touched)
            => (remote # <<>> /\ req[1].version = remote[1].Version))
    /\ [][(pc = "update.post" /\ ~touched /\ pc' = "idle")
            => result'.callErr \in TransientErrors]_vars
    /\ [](pc = "delete.delete" => req[1].version = state.version)
    /\ [][(pc = "delete.delete" /\ pc' = "idle" /\ remote # <<>>
             /\ remote[1].Version # state.version)
            => (remote' = remote /\ result'.callErr # "none")]_vars

\* An update posted after another client's change is accepted although the stored
\* version is stale.
C9_Witness ==
    /\ op = "update" /\ pc = "read.get" /\ remote # <<>>
    /\ externals = 1 /\ remote[1].Version = state.version + 2

\* A configured valid_from or valid_until that is not empty and does not parse.
Unparsable(c) ==
    \E f \in {"valid_from", "valid_until"} : c[f] \notin {"", GoodTime}

\* C10: with a non-empty valid_from or valid_until that does not parse, create
\* returns an error without any remote call and leaves ID, stored fields and remote
\* as they were, and update returns an error after its first get, never posts, and
\* leaves them as they were; an empty valid_from or valid_until is no error: create
\* leaves the field out of the draft and update sends the set action without a value.
C10_ParseErrors ==
    /\ [][(pc = "idle" /\ result' # result /\ result'.op = "create" /\ Unparsable(config))
            => /\ pc' = "idle" /\ result'.diag = "parse" /\ sent' = NoneSent
               /\ id' = "" /\ state' = state /\ remote' = remote]_vars
    /\ []((op \in {"create", "update"} /\ Unparsable(config))
            => pc \notin {"create.post", "update.post", "read.get"})
    /\ [][(op = "update" /\ Unparsable(config) /\ pc' = "idle")
            => /\ result'.diag \notin {"none", "running"} /\ sent'["update.post"] = 0
               /\ id' = id /\ state' = state /\ remote' = remote]_vars
    /\ [](pc = "create.post"
            => /\ (config.valid_from = "") = (req[1].draft[1].ValidFrom = <<>>)
               /\ (config.valid_until = "") = (req[1].draft[1].ValidUntil = <<>>))
    /\ [](pc = "update.post"
            => \A i \in 1..Len(req[1].actions) :
                 /\ req[1].actions[i].action = "setValidFrom"
                      => (config.valid_from = "") = (req[1].actions[i].value = <<>>)
                 /\ req[1].actions[i].action = "setValidUntil"
                      => (config.valid_until = "") = (req[1].actions[i].value = <<>>))
    /\ []((pc = "update.post" /\ state.valid_from # "" /\ config.valid_from = "")
            => \E i \in 1..Len(req[1].actions) : req[1].actions[i].action = "setValidFrom")

\* update returned the parse error after its get, having posted nothing.
C10_Witness ==
    /\ Returned({"update"}) /\ result.diag = "parse"
    /\ sent["update.get"] = 1 /\ sent["update.post"] = 0

=============================================================================
